---- MODULE Spec2Model ----
(***************************************************************************)
(* Model of the per-guild music session of src/ymain_cache.py: the global  *)
(* dictionaries (guild_queues, guild_playing, skip_votes, disconnect_tasks,*)
(* guild_volumes), the voice client objects of the guild, and the          *)
(* coroutines that run on the bot's event loop (command handlers,          *)
(* play_next, auto_disconnect).  A coroutine runs atomically from one      *)
(* await to the next; every await is a point where the other coroutines    *)
(* may run.  One guild is modelled: the dictionaries are keyed by guild id *)
(* and no handler touches another guild's entries.                         *)
(***************************************************************************)
EXTENDS Integers, Sequences, FiniteSets, Bags

\* ------------------------------------------------------------ bounds
MaxCommands == 3
MaxListeners == 2
MaxQueued == 4
MaxPlays == 2

\* ------------------------------------------------------------ program constants
IdleLimit == 180
check_interval == 5
DefaultVolume == 100
MaxVolume == 200

\* ------------------------------------------------------------ inputs
Users == {1, 2, 3}
OG_ROLE_NAME == {3}
Titles == {"A"}
VolumeInputs == {0 - 1, 0, 50, 200, 201, 250}
QueueNumbers == 0 .. (MaxQueued + 1)
VCIds == 1 .. MaxCommands
WDIds == 1 .. 2
None == 0

NoSong == [title |-> "", requester_id |-> None, seq |-> 0]
NoVoiceClient == [connected |-> FALSE, player |-> "none", current_song |-> NoSong, source_volume |-> 0]
NoTask == [st |-> "dead", vc |-> None, idle_seconds |-> 0]
NoOutcome == [op |-> "", res |-> ""]

VARIABLES
    CREATOR_USER_ID,   \* the configured creator id, None when unset
    guild_queues,      \* the guild's deque of songs
    guild_playing,     \* the guild's playing flag
    skip_votes,        \* the guild's set of voters
    disconnect_tasks,  \* the registered auto_disconnect task, None when absent
    guild_volumes,     \* the guild's volume, in hundredths
    voice_client,      \* ctx.voice_client: the guild's voice client, None when absent
    vcs,               \* the voice client objects
    members,           \* users of the model in the voice channel
    listeners,         \* other non-bot members in the voice channel
    playTasks,         \* bag of the play handlers suspended at an await
    pnTasks,           \* play_next coroutines suspended at the now-playing send
    pending,           \* play_next tasks created and not yet started
    stopTasks,         \* bag of the stop handlers suspended at disconnect/send
    watchdogs,         \* the auto_disconnect tasks
    enqueued,          \* history: number of songs appended so far
    started,           \* history: seq of the songs the sink accepted, in order
    issued,            \* history: play and stop commands accepted so far
    connects,          \* history: voice clients created so far
    out                \* reply to the command handled in the last step, if any

vars == <<CREATOR_USER_ID, guild_queues, guild_playing, skip_votes, disconnect_tasks,
          guild_volumes, voice_client, vcs, members, listeners, playTasks, pnTasks,
          pending, stopTasks, watchdogs, enqueued, started, issued, connects, out>>

Init ==
    /\ CREATOR_USER_ID \in {None, 1}
    /\ guild_queues = <<>>
    /\ guild_playing = FALSE
    /\ skip_votes = {}
    /\ disconnect_tasks = None
    /\ guild_volumes = DefaultVolume
    /\ voice_client = None
    /\ vcs = [v \in VCIds |-> NoVoiceClient]
    /\ members = {}
    /\ listeners = 0
    /\ playTasks = EmptyBag
    /\ pnTasks = {}
    /\ pending = 0
    /\ stopTasks = EmptyBag
    /\ watchdogs = [w \in WDIds |-> NoTask]
    /\ enqueued = 0
    /\ started = <<>>
    /\ issued = 0
    /\ connects = 0
    /\ out = NoOutcome


\* ------------------------------------------------------------ helpers
Max(a, b) == IF a >= b THEN a ELSE b

\* Python dict equality of two songs: every key of the dict, not the object identity
\* (seq is the model's name for the object, it is no key of the dict).
SameSong(a, b) == a.title = b.title /\ a.requester_id = b.requester_id

\* deque.remove(x): removes the first element equal to x
RECURSIVE DequeRemove(_, _)
DequeRemove(q, x) ==
    IF q = <<>> THEN <<>>
    ELSE IF SameSong(Head(q), x) THEN Tail(q)
    ELSE <<Head(q)>> \o DequeRemove(Tail(q), x)

\* discord.VoiceClient.is_playing / is_paused / source of a voice client object
is_playing(v) == vcs[v].player = "playing"
is_paused(v) == vcs[v].player = "paused"
has_source(v) == vcs[v].player \in {"playing", "paused", "ended"}

\* the player thread of v is alive: stopping it makes it call after_play once
AfterDue(v) == vcs[v].player \in {"playing", "paused"}

\* after_play: schedule the next track
after_play(n) == n + 1

\* the non-bot members of the voice channel
vc_members == Cardinality(members) + listeners

\* CREATOR_USER_ID and ctx.author.id == CREATOR_USER_ID
IsCreator(u) == CREATOR_USER_ID # None /\ u = CREATOR_USER_ID

\* discord.utils.get(member.roles, name=OG_ROLE_NAME)
og_role(u) == u \in OG_ROLE_NAME

Outcome(o, r) == [op |-> o, res |-> r]

\* ------------------------------------------------------------ voice channel
Join(u) ==
    /\ u \notin members
    /\ members' = members \cup {u}
    /\ UNCHANGED <<CREATOR_USER_ID, guild_queues, guild_playing, skip_votes, disconnect_tasks,
                   guild_volumes, voice_client, vcs, listeners, playTasks, pnTasks,
                   pending, stopTasks, watchdogs, enqueued, started, issued, connects>>

Leave(u) ==
    /\ u \in members
    /\ members' = members \ {u}
    /\ UNCHANGED <<CREATOR_USER_ID, guild_queues, guild_playing, skip_votes, disconnect_tasks,
                   guild_volumes, voice_client, vcs, listeners, playTasks, pnTasks,
                   pending, stopTasks, watchdogs, enqueued, started, issued, connects>>

ListenerJoin ==
    /\ listeners < MaxListeners
    /\ listeners' = listeners + 1
    /\ UNCHANGED <<CREATOR_USER_ID, guild_queues, guild_playing, skip_votes, disconnect_tasks,
                   guild_volumes, voice_client, vcs, members, playTasks, pnTasks,
                   pending, stopTasks, watchdogs, enqueued, started, issued, connects>>

ListenerLeave ==
    /\ listeners > 0
    /\ listeners' = listeners - 1
    /\ UNCHANGED <<CREATOR_USER_ID, guild_queues, guild_playing, skip_votes, disconnect_tasks,
                   guild_volumes, voice_client, vcs, members, playTasks, pnTasks,
                   pending, stopTasks, watchdogs, enqueued, started, issued, connects>>

\* VoiceClient.disconnect, up to its first suspension: the player is stopped and the
\* client stops being connected
DisconnectBegin(vs, v) == [vs EXCEPT ![v].player = "none", ![v].connected = FALSE]

\* VoiceClient.disconnect, its end (cleanup): the guild no longer has this voice client.
\* The object stays referenced only by coroutines that captured it, and all they do
\* with it is call play, which raises: its other attributes are dropped here.
VoiceDisconnected ==
    /\ voice_client # None
    /\ ~vcs[voice_client].connected
    /\ voice_client' = None
    /\ vcs' = [vcs EXCEPT ![voice_client] = NoVoiceClient]
    /\ UNCHANGED <<CREATOR_USER_ID, guild_queues, guild_playing, skip_votes, disconnect_tasks,
                   guild_volumes, members, listeners, playTasks, pnTasks,
                   pending, stopTasks, watchdogs, enqueued, started, issued, connects>>

\* the sink reports the end of the track (naturally or by a stream error)
TrackEnd(v) ==
    /\ is_playing(v)
    /\ vcs' = [vcs EXCEPT ![v].player = "ended"]
    /\ pending' = after_play(pending)
    /\ UNCHANGED <<CREATOR_USER_ID, guild_queues, guild_playing, skip_votes, disconnect_tasks,
                   guild_volumes, voice_client, members, listeners, playTasks, pnTasks,
                   stopTasks, watchdogs, enqueued, started, issued, connects>>

\* ------------------------------------------------------------ play_next
\* play_next up to the now-playing send: the head of the queue is popped and bound to
\* the voice client, and the coroutine suspends holding the song and the client
play_next ==
    IF guild_queues = <<>> THEN
        /\ guild_playing' = FALSE
        /\ UNCHANGED <<guild_queues, vcs, pnTasks>>
    ELSE IF voice_client = None THEN
        /\ guild_queues' = Tail(guild_queues)
        /\ guild_playing' = FALSE
        /\ UNCHANGED <<vcs, pnTasks>>
    ELSE
        /\ guild_queues' = Tail(guild_queues)
        /\ guild_playing' = TRUE
        /\ vcs' = [vcs EXCEPT ![voice_client].current_song = Head(guild_queues)]
        /\ pnTasks' = pnTasks \cup {[song |-> Head(guild_queues), vc |-> voice_client]}

\* a play_next task created by after_play or by the except branch starts running
PlayNextTask ==
    /\ pending > 0
    /\ pending' = pending - 1
    /\ play_next
    /\ UNCHANGED <<CREATOR_USER_ID, skip_votes, disconnect_tasks, guild_volumes, voice_client,
                   members, listeners, playTasks, stopTasks, watchdogs, enqueued, started,
                   issued, connects>>

\* discord.FFmpegPCMAudio raises (the process cannot be spawned): outside the try,
\* the exception ends the coroutine
PlayNextSourceError(t) ==
    /\ t \in pnTasks
    /\ pnTasks' = pnTasks \ {t}
    /\ UNCHANGED <<CREATOR_USER_ID, guild_queues, guild_playing, skip_votes, disconnect_tasks,
                   guild_volumes, voice_client, vcs, members, listeners, playTasks,
                   pending, stopTasks, watchdogs, enqueued, started, issued, connects>>

\* VoiceClient.play accepts a source: the client is connected and not playing
SinkAccepts(v) == vcs[v].connected /\ ~is_playing(v)

\* voice_client.play raises (always when not connected or already playing, and for any
\* reason of its own): the except branch schedules play_next again
PlayNextRejected(t) ==
    /\ t \in pnTasks
    /\ pnTasks' = pnTasks \ {t}
    /\ pending' = pending + 1
    /\ UNCHANGED <<CREATOR_USER_ID, guild_queues, guild_playing, skip_votes, disconnect_tasks,
                   guild_volumes, voice_client, vcs, members, listeners, playTasks,
                   stopTasks, watchdogs, enqueued, started, issued, connects>>

\* the registered task left running
CancelRegistered_kept(ws) == ws

\* Task.cancel of the registered auto_disconnect task
CancelRegistered(ws) ==
    IF disconnect_tasks # None THEN [ws EXCEPT ![disconnect_tasks] = NoTask] ELSE ws

\* the task object bot.loop.create_task returns
NewTask(ws) == CHOOSE w \in WDIds : ws[w].st = "dead" /\ \A x \in WDIds : ws[x].st = "dead" => w <= x

\* voice_client.play succeeds; the auto-disconnect timer is refreshed
PlayNextStarted(t) ==
    /\ t \in pnTasks
    /\ SinkAccepts(t.vc)
    /\ \E w \in WDIds : CancelRegistered(watchdogs)[w].st = "dead"
    /\ pnTasks' = pnTasks \ {t}
    /\ vcs' = [vcs EXCEPT ![t.vc].player = "playing", ![t.vc].source_volume = guild_volumes]
    /\ started' = Append(started, t.song.seq)
    /\ LET ws == CancelRegistered(watchdogs)
           w == NewTask(ws)
       IN  /\ watchdogs' = [ws EXCEPT ![w] = [st |-> "created", vc |-> None, idle_seconds |-> 0]]
           /\ disconnect_tasks' = w
    /\ UNCHANGED <<CREATOR_USER_ID, guild_queues, guild_playing, skip_votes, guild_volumes,
                   voice_client, members, listeners, playTasks, pending, stopTasks,
                   enqueued, issued, connects>>

\* ------------------------------------------------------------ play
\* the command arrives: setdefaults, and the voice client check
Play(u, title) ==
    /\ issued' = issued + 1
    /\ IF voice_client = None /\ u \notin members
       THEN UNCHANGED playTasks
       ELSE playTasks' = playTasks (+) SetToBag(
                {[author |-> u, title |-> title,
                  pc |-> IF voice_client = None THEN "connect" ELSE "fetch"]})
    /\ UNCHANGED <<CREATOR_USER_ID, guild_queues, guild_playing, skip_votes, disconnect_tasks,
                   guild_volumes, voice_client, vcs, members, listeners, pnTasks,
                   pending, stopTasks, watchdogs, enqueued, started, connects>>

\* channel.connect() returns: the guild has a new, connected voice client
PlayConnected(t) ==
    /\ BagIn(t, playTasks) /\ t.pc = "connect"
    /\ voice_client = None
    /\ connects' = connects + 1
    /\ voice_client' = connects + 1
    /\ vcs' = [vcs EXCEPT ![connects + 1] = [NoVoiceClient EXCEPT !.connected = TRUE]]
    /\ playTasks' = (playTasks (-) SetToBag({t})) (+) SetToBag({[t EXCEPT !.pc = "fetch"]})
    /\ UNCHANGED <<CREATOR_USER_ID, guild_queues, guild_playing, skip_votes, disconnect_tasks,
                   guild_volumes, members, listeners, pnTasks, pending, stopTasks,
                   watchdogs, enqueued, started, issued>>

\* channel.connect() raises (always when the guild already has a voice client):
\* the handler reports and returns
PlayConnectFailed(t) ==
    /\ BagIn(t, playTasks) /\ t.pc = "connect"
    /\ playTasks' = playTasks (-) SetToBag({t})
    /\ UNCHANGED <<CREATOR_USER_ID, guild_queues, guild_playing, skip_votes, disconnect_tasks,
                   guild_volumes, voice_client, vcs, members, listeners, pnTasks,
                   pending, stopTasks, watchdogs, enqueued, started, issued, connects>>

\* preload_song returns: the song is appended and the handler suspends at the
\* added-to-queue send
PlayAppend(t) ==
    /\ BagIn(t, playTasks) /\ t.pc = "fetch"
    /\ enqueued' = enqueued + 1
    /\ guild_queues' = Append(guild_queues,
            [title |-> t.title, requester_id |-> t.author, seq |-> enqueued + 1])
    /\ playTasks' = (playTasks (-) SetToBag({t})) (+) SetToBag({[t EXCEPT !.pc = "added"]})
    /\ UNCHANGED <<CREATOR_USER_ID, guild_playing, skip_votes, disconnect_tasks,
                   guild_volumes, voice_client, vcs, members, listeners, pnTasks,
                   pending, stopTasks, watchdogs, started, issued, connects>>

\* preload_song raises: the handler reports and returns, the queue is untouched
PlayFetchFailed(t) ==
    /\ BagIn(t, playTasks) /\ t.pc = "fetch"
    /\ playTasks' = playTasks (-) SetToBag({t})
    /\ UNCHANGED <<CREATOR_USER_ID, guild_queues, guild_playing, skip_votes, disconnect_tasks,
                   guild_volumes, voice_client, vcs, members, listeners, pnTasks,
                   pending, stopTasks, watchdogs, enqueued, started, issued, connects>>

\* the handler ends after the send without starting playback
PlayStart_appended_only(t) ==
    /\ BagIn(t, playTasks) /\ t.pc = "added"
    /\ playTasks' = playTasks (-) SetToBag({t})
    /\ UNCHANGED <<CREATOR_USER_ID, guild_queues, guild_playing, skip_votes, disconnect_tasks,
                   guild_volumes, voice_client, vcs, members, listeners, pnTasks,
                   pending, stopTasks, watchdogs, enqueued, started, issued, connects>>

\* the handler resumes after the send: start playback if not already playing
PlayStart(t) ==
    /\ BagIn(t, playTasks) /\ t.pc = "added"
    /\ playTasks' = playTasks (-) SetToBag({t})
    /\ IF ~guild_playing
       THEN play_next
       ELSE UNCHANGED <<guild_queues, guild_playing, vcs, pnTasks>>
    /\ UNCHANGED <<CREATOR_USER_ID, skip_votes, disconnect_tasks, guild_volumes, voice_client,
                   members, listeners, pending, stopTasks, watchdogs, enqueued, started,
                   issued, connects>>

\* ------------------------------------------------------------ skip
\* the threshold rounded up instead of down
votes_needed_ceil(n) == Max(1, (n + 1) \div 2)

\* votes_needed = max(1, len(vc_members) // 2)
votes_needed(n) == Max(1, n \div 2)

\* the override given to the creator in place of the requester
RequesterOverride_creator(u) ==
    /\ vcs[voice_client].current_song # NoSong
    /\ IsCreator(u)

\* the requester override applies to member u
RequesterOverride(u) ==
    /\ vcs[voice_client].current_song # NoSong
    /\ u = vcs[voice_client].current_song.requester_id

\* the branch of skip that member u takes
SkipResult(u) ==
    IF voice_client = None \/ ~is_playing(voice_client) THEN "NothingPlaying"
    ELSE IF u \notin members THEN "NotInChannel"
    ELSE IF RequesterOverride(u) THEN "RequesterOverride"
    ELSE IF og_role(u) THEN "OGOverride"
    ELSE IF Cardinality(skip_votes \cup {u}) >= votes_needed(vc_members) THEN "SkipPassed"
    ELSE "VoteRegistered"

\* the votes left in place when the vote passes
SkipVotesAfter_kept(u, res) ==
    IF res \in {"RequesterOverride", "OGOverride"} THEN {}
    ELSE IF res \in {"VoteRegistered", "SkipPassed"} THEN skip_votes \cup {u}
    ELSE skip_votes

\* the votes skip leaves behind
SkipVotesAfter(u, res) ==
    IF res \in {"RequesterOverride", "OGOverride", "SkipPassed"} THEN {}
    ELSE IF res = "VoteRegistered" THEN skip_votes \cup {u}
    ELSE skip_votes

skip(u) ==
    LET res == SkipResult(u) IN
    /\ skip_votes' = SkipVotesAfter(u, res)
    /\ IF res \in {"RequesterOverride", "OGOverride", "SkipPassed"}
       THEN /\ vcs' = [vcs EXCEPT ![voice_client].player = "none"]
            /\ pending' = after_play(pending)
       ELSE UNCHANGED <<vcs, pending>>
    /\ UNCHANGED <<CREATOR_USER_ID, guild_queues, guild_playing, disconnect_tasks,
                   guild_volumes, voice_client, members, listeners, playTasks, pnTasks,
                   stopTasks, watchdogs, enqueued, started, issued, connects>>

\* ------------------------------------------------------------ stop
\* the creator check of stop
StopAllowed(u) == ~(CREATOR_USER_ID # None /\ u # CREATOR_USER_ID)

\* the branch of stop that member u takes
StopResult(u) ==
    IF ~StopAllowed(u) THEN "NotAuthorized"
    ELSE IF voice_client # None THEN "Stopped"
    ELSE "NotConnected"

\* stop up to its first await: the denial, or the queue cleared, the flag reset and
\* the disconnect begun (or the not-connected send)
stop(u) ==
    IF ~StopAllowed(u) THEN
        /\ UNCHANGED <<CREATOR_USER_ID, guild_queues, guild_playing, skip_votes,
                       disconnect_tasks, guild_volumes, voice_client, vcs, members, listeners,
                       playTasks, pnTasks, pending, stopTasks, watchdogs, enqueued, started,
                       issued, connects>>
    ELSE
        /\ issued' = issued + 1
        /\ stopTasks' = stopTasks (+) SetToBag({[vc |-> voice_client]})
        /\ IF voice_client # None
           THEN /\ guild_queues' = <<>>
                /\ guild_playing' = FALSE
                /\ vcs' = DisconnectBegin(vcs, voice_client)
                /\ pending' = IF AfterDue(voice_client) THEN after_play(pending) ELSE pending
           ELSE UNCHANGED <<guild_queues, guild_playing, vcs, pending>>
        /\ UNCHANGED <<CREATOR_USER_ID, skip_votes, disconnect_tasks, guild_volumes,
                       voice_client, members, listeners, playTasks, pnTasks, watchdogs,
                       enqueued, started, connects>>

\* stop after its awaits (the disconnect has returned, the message is sent): the
\* registered auto_disconnect task is cancelled and unregistered
stop_finish(t) ==
    /\ BagIn(t, stopTasks)
    /\ t.vc = None \/ voice_client # t.vc
    /\ stopTasks' = stopTasks (-) SetToBag({t})
    /\ watchdogs' = CancelRegistered(watchdogs)
    /\ disconnect_tasks' = None
    /\ UNCHANGED <<CREATOR_USER_ID, guild_queues, guild_playing, skip_votes, guild_volumes,
                   voice_client, vcs, members, listeners, playTasks, pnTasks, pending,
                   enqueued, started, issued, connects>>

\* ------------------------------------------------------------ pause, resume
\* the OG role allowed as well, as in skip
ControlAllowed_og(u) ==
    vcs[voice_client].current_song # NoSong =>
        (u = vcs[voice_client].current_song.requester_id \/ IsCreator(u) \/ og_role(u))

\* allowed = author is the requester of the current song, or the creator
ControlAllowed(u) ==
    vcs[voice_client].current_song # NoSong =>
        (u = vcs[voice_client].current_song.requester_id \/ IsCreator(u))

PauseResult(u) ==
    IF voice_client = None \/ ~is_playing(voice_client) THEN "NothingPlaying"
    ELSE IF ~ControlAllowed(u) THEN "NotAuthorized"
    ELSE "Paused"

pause(u) ==
    LET res == PauseResult(u) IN
    /\ IF res = "Paused"
       THEN vcs' = [vcs EXCEPT ![voice_client].player = "paused"]
       ELSE UNCHANGED vcs
    /\ UNCHANGED <<CREATOR_USER_ID, guild_queues, guild_playing, skip_votes, disconnect_tasks,
                   guild_volumes, voice_client, members, listeners, playTasks, pnTasks,
                   pending, stopTasks, watchdogs, enqueued, started, issued, connects>>

ResumeResult(u) ==
    IF voice_client = None \/ ~is_paused(voice_client) THEN "NothingPaused"
    ELSE IF ~ControlAllowed(u) THEN "NotAuthorized"
    ELSE "Resumed"

resume(u) ==
    LET res == ResumeResult(u) IN
    /\ IF res = "Resumed"
       THEN vcs' = [vcs EXCEPT ![voice_client].player = "playing"]
       ELSE UNCHANGED vcs
    /\ UNCHANGED <<CREATOR_USER_ID, guild_queues, guild_playing, skip_votes, disconnect_tasks,
                   guild_volumes, voice_client, members, listeners, playTasks, pnTasks,
                   pending, stopTasks, watchdogs, enqueued, started, issued, connects>>

\* ------------------------------------------------------------ remove
\* allowed = author is the requester of the song, or the creator
RemoveAllowed(u, song) == u = song.requester_id \/ IsCreator(u)

RemoveResult(u, queue_no) ==
    IF guild_queues = <<>> THEN "QueueEmpty"
    ELSE IF queue_no < 2 \/ queue_no > Len(guild_queues) + 1 THEN "InvalidPosition"
    ELSE IF ~RemoveAllowed(u, guild_queues[queue_no - 1]) THEN "NotAuthorized"
    ELSE "Removed"

\* queue numbers counted from the head of the queue: 1 is the next song
remove_from_one(u, queue_no) ==
    /\ IF /\ guild_queues # <<>>
          /\ queue_no >= 1 /\ queue_no <= Len(guild_queues)
          /\ RemoveAllowed(u, guild_queues[queue_no])
       THEN guild_queues' = DequeRemove(guild_queues, guild_queues[queue_no])
       ELSE UNCHANGED guild_queues
    /\ UNCHANGED <<CREATOR_USER_ID, guild_playing, skip_votes, disconnect_tasks,
                   guild_volumes, voice_client, vcs, members, listeners, playTasks, pnTasks,
                   pending, stopTasks, watchdogs, enqueued, started, issued, connects>>

remove(u, queue_no) ==
    LET res == RemoveResult(u, queue_no) IN
    /\ IF res = "Removed"
       THEN guild_queues' = DequeRemove(guild_queues, guild_queues[queue_no - 1])
       ELSE UNCHANGED guild_queues
    /\ UNCHANGED <<CREATOR_USER_ID, guild_playing, skip_votes, disconnect_tasks,
                   guild_volumes, voice_client, vcs, members, listeners, playTasks, pnTasks,
                   pending, stopTasks, watchdogs, enqueued, started, issued, connects>>

\* ------------------------------------------------------------ volume
\* vol / 100.0, kept in hundredths
VolumeOf(vol) == vol

\* the range check left out
VolumeResult_unchecked(vol) ==
    IF voice_client = None \/ vcs[voice_client].current_song = NoSong THEN "NothingPlaying"
    ELSE "VolumeSet"

VolumeResult(vol) ==
    IF voice_client = None \/ vcs[voice_client].current_song = NoSong THEN "NothingPlaying"
    ELSE IF vol < 0 \/ vol > MaxVolume THEN "OutOfRange"
    ELSE "VolumeSet"

\* the volume stored for the guild only, the playing source left as it is
volume_stored_only(u, vol) ==
    /\ guild_volumes' = IF VolumeResult(vol) = "VolumeSet" THEN VolumeOf(vol) ELSE guild_volumes
    /\ UNCHANGED <<CREATOR_USER_ID, guild_queues, guild_playing, skip_votes, disconnect_tasks,
                   voice_client, vcs, members, listeners, playTasks, pnTasks,
                   pending, stopTasks, watchdogs, enqueued, started, issued, connects>>

volume(u, vol) ==
    LET res == VolumeResult(vol) IN
    /\ IF res = "VolumeSet"
       THEN /\ guild_volumes' = VolumeOf(vol)
            /\ vcs' = IF has_source(voice_client)
                      THEN [vcs EXCEPT ![voice_client].source_volume = VolumeOf(vol)]
                      ELSE vcs
       ELSE UNCHANGED <<guild_volumes, vcs>>
    /\ UNCHANGED <<CREATOR_USER_ID, guild_queues, guild_playing, skip_votes, disconnect_tasks,
                   voice_client, members, listeners, playTasks, pnTasks,
                   pending, stopTasks, watchdogs, enqueued, started, issued, connects>>

\* ------------------------------------------------------------ auto_disconnect
\* the queue left out of the test
IdleAfter_no_queue(idle, v) ==
    IF vc_members > 0 \/ is_playing(v) THEN 0
    ELSE idle + check_interval

\* one pass of the loop body: the new value of idle_seconds
IdleAfter(idle, v) ==
    IF vc_members > 0 \/ is_playing(v) \/ guild_queues # <<>> THEN 0
    ELSE idle + check_interval

\* one pass of the loop of task w watching voice client v: sleep again, or begin
\* the teardown (the disconnect is awaited)
Poll(w, v, idle) ==
    LET n == IdleAfter(idle, v) IN
    IF n >= IdleLimit
    THEN /\ watchdogs' = [watchdogs EXCEPT ![w] = [st |-> "leaving", vc |-> v, idle_seconds |-> n]]
         /\ vcs' = DisconnectBegin(vcs, v)
         /\ pending' = IF AfterDue(v) THEN after_play(pending) ELSE pending
    ELSE /\ watchdogs' = [watchdogs EXCEPT ![w] = [st |-> "sleeping", vc |-> v, idle_seconds |-> n]]
         /\ UNCHANGED <<vcs, pending>>

\* the task starts: it returns at once without a voice client, else runs its first pass
WatchdogStart(w) ==
    /\ watchdogs[w].st = "created"
    /\ IF voice_client = None
       THEN /\ watchdogs' = [watchdogs EXCEPT ![w] = NoTask]
            /\ UNCHANGED <<vcs, pending>>
       ELSE Poll(w, voice_client, 0)
    /\ UNCHANGED <<CREATOR_USER_ID, guild_queues, guild_playing, skip_votes, disconnect_tasks,
                   guild_volumes, voice_client, members, listeners, playTasks, pnTasks,
                   stopTasks, enqueued, started, issued, connects>>

\* asyncio.sleep(check_interval) returns: the next pass
WatchdogTick(w) ==
    /\ watchdogs[w].st = "sleeping"
    /\ Poll(w, watchdogs[w].vc, watchdogs[w].idle_seconds)
    /\ UNCHANGED <<CREATOR_USER_ID, guild_queues, guild_playing, skip_votes, disconnect_tasks,
                   guild_volumes, voice_client, members, listeners, playTasks, pnTasks,
                   stopTasks, enqueued, started, issued, connects>>

\* the disconnect has returned and the message is sent: the session is reset and the
\* registered task removed
WatchdogTeardown(w) ==
    /\ watchdogs[w].st = "leaving"
    /\ voice_client # watchdogs[w].vc
    /\ guild_playing' = FALSE
    /\ guild_queues' = <<>>
    /\ skip_votes' = {}
    /\ disconnect_tasks' = None
    /\ watchdogs' = [watchdogs EXCEPT ![w] = NoTask]
    /\ UNCHANGED <<CREATOR_USER_ID, guild_volumes, voice_client, vcs, members, listeners,
                   playTasks, pnTasks, pending, stopTasks, enqueued, started, issued, connects>>

\* ------------------------------------------------------------ session view
\* the track bound to the output sink, as the handlers read it: the current_song
\* attribute of the guild's voice client
current == IF voice_client = None THEN NoSong ELSE vcs[voice_client].current_song

\* the state of the session.  The code keeps it in two places: the guild_playing
\* flag, which play tests, and the sink, which skip, pause and resume test.  The
\* session is Playing or Paused where both say so, Idle where both say so, and
\* "Unsettled" where they disagree.
state ==
    IF voice_client # None /\ is_playing(voice_client) /\ guild_playing THEN "Playing"
    ELSE IF voice_client # None /\ is_paused(voice_client) /\ guild_playing THEN "Paused"
    ELSE IF ~guild_playing /\ (voice_client = None \/ ~AfterDue(voice_client)) THEN "Idle"
    ELSE "Unsettled"

\* an advance is pending (its task is created) or in flight (Loading)
Advancing == pending > 0 \/ pnTasks # {}

\* the songs of a queue, by object
Seqs(q) == {q[i].seq : i \in 1 .. Len(q)}

\* ------------------------------------------------------------ specification
\* The playback loop: member 1 is in and out of the voice channel and issues play;
\* members 1 and 2 issue the other commands.  The replies are not observed.
Requesters == {1}
Callers == {1, 2}

\* the reply a handler sends
Reply(o, r) == out' = Outcome(o, r)

Presence ==
    \E u \in Requesters : Join(u) \/ Leave(u)

PlayCommand ==
    \/ \E u \in Requesters, title \in Titles : issued < MaxCommands /\ Play(u, title)
    \/ \E t \in BagToSet(playTasks) : \/ PlayConnected(t) \/ PlayConnectFailed(t)
                                      \/ PlayAppend(t) \/ PlayFetchFailed(t) \/ PlayStart(t)

Advance ==
    \/ PlayNextTask
    \/ \E t \in pnTasks : PlayNextSourceError(t) \/ PlayNextRejected(t) \/ PlayNextStarted(t)

Sink ==
    \/ \E v \in VCIds : TrackEnd(v)
    \/ VoiceDisconnected

StopCommand ==
    \/ \E u \in Callers : issued < MaxCommands /\ stop(u)
    \/ \E t \in BagToSet(stopTasks) : stop_finish(t)

Watchdog ==
    \E w \in WDIds : WatchdogStart(w) \/ WatchdogTick(w) \/ WatchdogTeardown(w)

Next ==
    /\ \/ Presence
       \/ PlayCommand
       \/ Advance
       \/ Sink
       \/ StopCommand
       \/ Watchdog
       \/ \E u \in Callers : skip(u) \/ pause(u) \/ resume(u)
       \/ \E u \in Callers, queue_no \in QueueNumbers : remove(u, queue_no)
    /\ UNCHANGED out

Spec == Init /\ [][Next]_vars

\* ------------------------------------------------------------ commands and replies
\* The specifications below follow the commands of one kind and record each reply.
\* Plays are issued one at a time and complete without a failure of the connection,
\* the fetch or the sink.
Quiet(A) == A /\ out' = NoOutcome

Channel ==
    \/ \E u \in Users : Join(u) \/ Leave(u)
    \/ ListenerJoin
    \/ ListenerLeave

PlaySequential(us, n) ==
    \/ \E u \in us, title \in Titles : issued < n /\ playTasks = EmptyBag /\ Play(u, title)
    \/ \E t \in BagToSet(playTasks) : PlayConnected(t) \/ PlayAppend(t) \/ PlayStart(t)

PlayOneAtATime == PlaySequential(Users, MaxPlays)

Playback ==
    \/ PlayNextTask
    \/ \E t \in pnTasks : PlayNextStarted(t)
    \/ \E v \in VCIds : TrackEnd(v)

Skip(u) == skip(u) /\ Reply("skip", SkipResult(u))

NextSkip ==
    \/ Quiet(Channel)
    \/ Quiet(PlayOneAtATime)
    \/ Quiet(Playback)
    \/ \E u \in Users : Skip(u)

SpecSkip == Init /\ [][NextSkip]_vars

Remove(u, queue_no) == remove(u, queue_no) /\ Reply("remove", RemoveResult(u, queue_no))

NextRemove ==
    \/ Quiet(Presence)
    \/ Quiet(PlaySequential(Callers, MaxQueued))
    \/ Quiet(Playback)
    \/ \E u \in Users, queue_no \in QueueNumbers : Remove(u, queue_no)

SpecRemove == Init /\ [][NextRemove]_vars

Volume(u, vol) == volume(u, vol) /\ Reply("volume", VolumeResult(vol))

NextVolume ==
    \/ Quiet(Presence)
    \/ Quiet(PlaySequential(Requesters, MaxCommands))
    \/ Quiet(Playback)
    \/ \E u \in Callers, vol \in VolumeInputs : Volume(u, vol)

SpecVolume == Init /\ [][NextVolume]_vars

\* The watchdog: plays one at a time, tracks that end, pause and resume, stop, and
\* the passes of auto_disconnect with the member in and out of the channel.
NextIdle ==
    \/ Quiet(Presence)
    \/ Quiet(PlaySequential(Requesters, MaxCommands))
    \/ Quiet(Playback)
    \/ Quiet(VoiceDisconnected)
    \/ Quiet(\E u \in Requesters : pause(u) \/ resume(u))
    \/ Quiet(StopCommand)
    \/ Quiet(Watchdog)

SpecIdle == Init /\ [][NextIdle]_vars

Stop(u) == stop(u) /\ Reply("stop", StopResult(u))

\* Stop: plays one at a time, tracks that end, the watchdog, and stop by any member.
NextStop ==
    \/ Quiet(Presence)
    \/ Quiet(PlaySequential(Requesters, MaxPlays))
    \/ Quiet(Playback)
    \/ Quiet(VoiceDisconnected)
    \/ Quiet(\E t \in BagToSet(stopTasks) : stop_finish(t))
    \/ Quiet(Watchdog)
    \/ \E u \in Users : issued < MaxCommands /\ Stop(u)

SpecStop == Init /\ [][NextStop]_vars

Pause(u) == pause(u) /\ Reply("pause", PauseResult(u))

Resume(u) == resume(u) /\ Reply("resume", ResumeResult(u))

\* Pause and resume: plays one at a time by any member, tracks that end, and pause
\* and resume by any member.
NextPause ==
    \/ Quiet(Presence)
    \/ Quiet(PlayOneAtATime)
    \/ Quiet(Playback)
    \/ \E u \in Users : Pause(u)
    \/ \E u \in Users : Resume(u)

SpecPause == Init /\ [][NextPause]_vars

\* stop is over: its confirmation is sent and the watchdog cancelled
StopDone(t) == stop_finish(t) /\ Reply("stop", "Completed")

\* the teardown of auto_disconnect is over: its message is sent and the session reset
TeardownDone(w) == WatchdogTeardown(w) /\ Reply("auto_disconnect", "Left")

\* Stop and teardown to their end: two members and other listeners in and out of the
\* channel, plays one at a time, tracks that end, skip votes, pause and resume, stop,
\* and the watchdog.
NextReset ==
    \/ Quiet(\E u \in Callers : Join(u) \/ Leave(u))
    \/ Quiet(ListenerJoin \/ ListenerLeave)
    \/ Quiet(PlaySequential(Requesters, MaxPlays))
    \/ Quiet(Playback)
    \/ Quiet(VoiceDisconnected)
    \/ Quiet(\E u \in Callers : skip(u) \/ pause(u) \/ resume(u))
    \/ \E u \in Callers : issued < MaxCommands /\ Stop(u)
    \/ \E t \in BagToSet(stopTasks) : StopDone(t)
    \/ Quiet(\E w \in WDIds : WatchdogStart(w) \/ WatchdogTick(w))
    \/ \E w \in WDIds : TeardownDone(w)

SpecReset == Init /\ [][NextReset]_vars

\* Enqueue and advance: two members in and out of the channel issue plays that
\* overlap, the sink accepts every source, tracks end or are skipped; no stop, no
\* removal, no teardown.
NextEnqueue ==
    \/ Quiet(\E u \in Callers : Join(u) \/ Leave(u))
    \/ Quiet(\E u \in Callers, title \in Titles : issued < MaxCommands /\ Play(u, title))
    \/ Quiet(\E t \in BagToSet(playTasks) : PlayConnected(t) \/ PlayConnectFailed(t))
    \/ Quiet(\E t \in BagToSet(playTasks) : PlayAppend(t))
    \/ Quiet(\E t \in BagToSet(playTasks) : PlayStart(t))
    \/ Quiet(PlayNextTask)
    \/ Quiet(\E t \in pnTasks : PlayNextStarted(t))
    \/ Quiet(\E v \in VCIds : TrackEnd(v))
    \/ Quiet(\E u \in Callers : skip(u))

\* The event loop runs every task that is ready (a handler past its await, a created
\* play_next task, a play call that is due), and a track that plays comes to its end.
FairEnqueue ==
    /\ WF_vars(Quiet(\E t \in BagToSet(playTasks) : PlayConnected(t) \/ PlayConnectFailed(t)))
    /\ WF_vars(Quiet(\E t \in BagToSet(playTasks) : PlayAppend(t)))
    /\ WF_vars(Quiet(\E t \in BagToSet(playTasks) : PlayStart(t)))
    /\ WF_vars(Quiet(PlayNextTask))
    /\ WF_vars(Quiet(\E t \in pnTasks : PlayNextStarted(t)))
    /\ WF_vars(Quiet(\E v \in VCIds : TrackEnd(v)))

SpecEnqueue == Init /\ [][NextEnqueue]_vars /\ FairEnqueue

\* ------------------------------------------------------------ claims
\* C1: at most one playback advance (play_next, from popping the head of the queue to
\* the sink accepting or rejecting the source) is in flight at any instant.
C1_SingleFlight == Cardinality(pnTasks) <= 1

\* no handler is part-way through changing the session: no advance is pending or in
\* flight (Loading), and no stop or teardown is between its disconnect and its end
Settled ==
    /\ ~Advancing
    /\ stopTasks = EmptyBag
    /\ \A w \in WDIds : watchdogs[w].st # "leaving"
    /\ voice_client # None => vcs[voice_client].connected

\* C2: outside the transient phases, the current track is non-null if and only if the
\* state is Playing or Paused; when a track has ended and the queue is empty the
\* session is Idle with no current track.
C2_CurrentIffPlaying ==
    (Settled /\ state # "Unsettled") =>
        (current # NoSong <=> state \in {"Playing", "Paused"})

\* a sequence of numbers is strictly increasing
Increasing(ns) == \A i, j \in 1 .. Len(ns) : i < j => ns[i] < ns[j]

\* the songs of the queue are in the order in which they were appended
QueueInOrder == Increasing([i \in 1 .. Len(guild_queues) |-> guild_queues[i].seq])

\* a step changes the queue only by appending the newly enqueued song at the tail or
\* by taking songs out: no song is reordered, and none comes back
QueueStep ==
    \/ /\ enqueued' = enqueued + 1
       /\ Len(guild_queues') = Len(guild_queues) + 1
       /\ guild_queues'[Len(guild_queues')].seq = enqueued'
       /\ SubSeq(guild_queues', 1, Len(guild_queues)) = guild_queues
    \/ /\ enqueued' = enqueued
       /\ Seqs(guild_queues') \subseteq Seqs(guild_queues)

QueueFifo == []QueueInOrder /\ [][QueueStep]_vars

\* the tracks were started in the order in which they were appended
StartedInOrder == Increasing(started)

\* C3: the queue is the appended songs in insertion order minus the ones taken out,
\* and the tracks are started in the order in which they were appended.
C3_Fifo == QueueInOrder /\ StartedInOrder

\* the replies of a skip that resolves it
SkipResolved == {"RequesterOverride", "OGOverride", "SkipPassed"}

\* C4: after a skip is resolved, by requester override, OG override or the vote
\* threshold, skip_votes is empty.
C4_VotesEmptyAfterSkip ==
    (out.op = "skip" /\ out.res \in SkipResolved) => skip_votes = {}

C4_Witness ==
    /\ out = Outcome("skip", "SkipPassed")
    /\ vc_members >= 4
    /\ skip_votes = {}

\* C5: while the sink is playing, a skip by the requester of the current track, who
\* is in the voice channel, stops the track and is answered as a requester override,
\* whatever the member count and the votes; the request is not kept as a vote.
C5_RequesterAlwaysSkips ==
    [][\A u \in Users :
        (/\ voice_client # None
         /\ is_playing(voice_client)
         /\ u \in members
         /\ u = current.requester_id
         /\ Skip(u))
        => (/\ out' = Outcome("skip", "RequesterOverride")
            /\ vcs'[voice_client].player = "none"
            /\ pending' = pending + 1
            /\ u \notin skip_votes')]_vars

C5_Witness ==
    /\ out = Outcome("skip", "RequesterOverride")
    /\ voice_client # None
    /\ vcs[voice_client].player = "none"
    /\ vc_members >= 4

\* max(1, floor(n / 2)), written out
Threshold(n) == IF n >= 4 THEN (n - (n % 2)) \div 2 ELSE 1

\* C6: a skip with no override adds the member to skip_votes (a set: a repeated vote
\* adds nothing) and stops the track if and only if the voters are at least
\* max(1, floor(n / 2)) of the n non-bot members present; otherwise the track keeps
\* playing.  1 member needs 1 vote, 4 need 2, 5 need 2.
C6_VoteThreshold ==
    [][\A u \in Users :
        (/\ voice_client # None
         /\ is_playing(voice_client)
         /\ u \in members
         /\ u # current.requester_id
         /\ ~og_role(u)
         /\ Skip(u))
        => LET votes == skip_votes \cup {u}
               n == vc_members
               passes == Cardinality(votes) >= Threshold(n)
           IN  /\ n = 1 => passes
               /\ n \in {4, 5} => (passes <=> Cardinality(votes) >= 2)
               /\ passes => /\ out' = Outcome("skip", "SkipPassed")
                            /\ vcs'[voice_client].player = "none"
                            /\ skip_votes' = {}
               /\ ~passes => /\ out' = Outcome("skip", "VoteRegistered")
                             /\ skip_votes' = votes
                             /\ vcs' = vcs
                             /\ pending' = pending]_vars

C6_Witness ==
    /\ out = Outcome("skip", "VoteRegistered")
    /\ vc_members = 5
    /\ Cardinality(skip_votes) = 1
    /\ voice_client # None
    /\ is_playing(voice_client)

\* what the songs of a queue are, as values: the keys of each dict
Values(q) == [i \in 1 .. Len(q) |-> [title |-> q[i].title, requester_id |-> q[i].requester_id]]

\* a sequence without its i-th element
Without(q, i) == SubSeq(q, 1, i - 1) \o SubSeq(q, i + 1, Len(q))

\* C7 as claimed: remove with queue number 1, or below 1, or at least N + 2 (N the
\* length of the queue, 0 included) is answered as an invalid position and leaves the
\* queue and the current track unchanged.
C7_InvalidPositionAlways ==
    [][\A u \in Users, queue_no \in QueueNumbers :
        (out'.op = "remove" /\ (queue_no < 2 \/ queue_no >= Len(guild_queues) + 2)
            /\ Remove(u, queue_no))
        => (/\ out' = Outcome("remove", "InvalidPosition")
            /\ guild_queues' = guild_queues
            /\ current' = current)]_vars

\* C7 as amended: such a remove always fails and leaves the queue and the current
\* track unchanged; it is answered as an invalid position when the queue is not
\* empty, and as an empty queue when it is.
C7_InvalidPosition ==
    [][\A u \in Users, queue_no \in QueueNumbers :
        (out'.op = "remove" /\ (queue_no < 2 \/ queue_no >= Len(guild_queues) + 2)
            /\ Remove(u, queue_no))
        => (/\ out' = Outcome("remove", IF guild_queues = <<>> THEN "QueueEmpty"
                                        ELSE "InvalidPosition")
            /\ guild_queues' = guild_queues
            /\ current' = current)]_vars

C7_Witness ==
    /\ out = Outcome("remove", "InvalidPosition")
    /\ Len(guild_queues) = 2
    /\ current # NoSong

\* C8: for a queue number k with 2 <= k <= N + 1, remove succeeds exactly when the
\* author is the requester of the song at k or is the creator; then that song is
\* taken out, the queue is one shorter and the other songs keep their order;
\* otherwise it is answered as not authorized and the queue is unchanged.
C8_RemoveAuthorized ==
    [][\A u \in Users, queue_no \in QueueNumbers :
        (out'.op = "remove" /\ 2 <= queue_no /\ queue_no <= Len(guild_queues) + 1
            /\ Remove(u, queue_no))
        => LET song == guild_queues[queue_no - 1]
               allowed == u = song.requester_id \/ (CREATOR_USER_ID # None /\ u = CREATOR_USER_ID)
           IN  /\ allowed => /\ out' = Outcome("remove", "Removed")
                             /\ Values(guild_queues') = Values(Without(guild_queues, queue_no - 1))
                             /\ Len(guild_queues') = Len(guild_queues) - 1
               /\ ~allowed => /\ out' = Outcome("remove", "NotAuthorized")
                              /\ guild_queues' = guild_queues]_vars

\* the session volume is within [0.0, 2.0]
VolumeInRange == 0 <= guild_volumes /\ guild_volumes <= 200

\* C9 as claimed: the session volume is within [0.0, 2.0] in every reachable state; a
\* volume request outside 0..200 is answered as out of range and leaves the stored
\* volume and the volume of the source unchanged: it is never clamped.
C9_OutOfRangeAlways ==
    /\ []VolumeInRange
    /\ [][\A u \in Callers, vol \in VolumeInputs :
            (out'.op = "volume" /\ (vol < 0 \/ vol > 200) /\ Volume(u, vol))
            => (/\ out' = Outcome("volume", "OutOfRange")
                /\ guild_volumes' = guild_volumes
                /\ vcs' = vcs)]_vars

\* C9 as amended: the session volume is within [0.0, 2.0] in every reachable state; a
\* volume request outside 0..200 fails and leaves the stored volume and the volume of
\* the source unchanged, never clamped; it is answered as out of range when the voice
\* client has a current song, and as nothing playing when there is none.
C9_OutOfRange ==
    /\ []VolumeInRange
    /\ [][\A u \in Callers, vol \in VolumeInputs :
            (out'.op = "volume" /\ (vol < 0 \/ vol > 200) /\ Volume(u, vol))
            => (/\ out' = Outcome("volume", IF current # NoSong THEN "OutOfRange"
                                            ELSE "NothingPlaying")
                /\ guild_volumes' = guild_volumes
                /\ vcs' = vcs)]_vars

C9_Witness ==
    /\ out = Outcome("volume", "OutOfRange")
    /\ voice_client # None
    /\ is_playing(voice_client)
    /\ guild_volumes = 50
    /\ vcs[voice_client].source_volume = 50

\* what a pass of auto_disconnect tests: a member who is not a bot is in the channel,
\* the voice client of the task is playing, or the queue is not empty
Active(w) ==
    \/ vc_members > 0
    \/ is_playing(IF watchdogs[w].st = "created" THEN voice_client ELSE watchdogs[w].vc)
    \/ guild_queues # <<>>

\* task w runs a pass of its loop in this step
Polls(w) ==
    \/ watchdogs[w].st = "created" /\ voice_client # None /\ WatchdogStart(w)
    \/ WatchdogTick(w)

\* C10: every pass of the watchdog that finds a member present, playback active or
\* the queue non-empty resets idle_seconds to 0 and goes back to sleep; every other
\* pass adds the 5 s interval; the teardown begins only in a pass that finds none of
\* them and brings idle_seconds to 180, which takes 36 such passes in a row; a task
\* that has begun its teardown never runs a pass again (it ends, and its place may
\* go to a new task), and the teardown resets the session and ends the task, so it
\* happens once.
C10_IdleTeardown ==
    /\ [](\A w \in WDIds :
            /\ watchdogs[w].st = "sleeping" => (watchdogs[w].idle_seconds % 5 = 0
                                                /\ watchdogs[w].idle_seconds < 180)
            /\ watchdogs[w].st = "leaving" => watchdogs[w].idle_seconds = 180)
    /\ [][\A w \in WDIds :
            LET polls == Polls(w)
                idle == IF watchdogs[w].st = "created" THEN 0 ELSE watchdogs[w].idle_seconds
            IN  /\ (polls /\ Active(w))
                   => (watchdogs'[w].st = "sleeping" /\ watchdogs'[w].idle_seconds = 0)
                /\ (polls /\ ~Active(w))
                   => (/\ watchdogs'[w].idle_seconds = idle + 5
                       /\ watchdogs'[w].st = IF idle + 5 >= 180 THEN "leaving" ELSE "sleeping")
                /\ (watchdogs[w].st # "leaving" /\ watchdogs'[w].st = "leaving")
                   => (polls /\ ~Active(w) /\ watchdogs[w].idle_seconds = 175
                       /\ ~vcs'[watchdogs'[w].vc].connected)
                /\ watchdogs[w].st = "leaving"
                   => \/ watchdogs'[w] = watchdogs[w]
                      \/ watchdogs'[w].st \in {"dead", "created"}
                /\ (watchdogs[w].st = "leaving" /\ WatchdogTeardown(w))
                   => (guild_queues' = <<>> /\ ~guild_playing' /\ skip_votes' = {}
                       /\ disconnect_tasks' = None /\ watchdogs'[w] = NoTask)]_vars

C10_Witness ==
    \E w \in WDIds :
        /\ watchdogs[w].st = "leaving"
        /\ watchdogs[w].idle_seconds = 180
        /\ started # <<>>
        /\ ~vcs[watchdogs[w].vc].connected

\* C11: stop is for the creator alone: a stop by any other member is answered as not
\* authorized and leaves the queue, the playing flag, the voice client and the
\* auto_disconnect task unchanged, whether CREATOR_USER_ID is set or not.
C11_StopCreatorOnly ==
    [][\A u \in Users :
        (out'.op = "stop" /\ ~IsCreator(u) /\ Stop(u))
        => (/\ out' = Outcome("stop", "NotAuthorized")
            /\ UNCHANGED <<guild_queues, guild_playing, voice_client, vcs,
                           watchdogs, disconnect_tasks, stopTasks>>)]_vars

\* what pause and resume must leave alone: the current track, the queue, the votes,
\* and the advances pending and in flight
ControlFrame ==
    /\ current' = current
    /\ UNCHANGED <<guild_queues, skip_votes, pending, pnTasks, guild_playing, started>>

\* C12: pause succeeds exactly when the state is Playing and the author is the
\* requester of the current track or the creator, and the state becomes Paused;
\* resume succeeds exactly when the state is Paused and the author is so allowed, and
\* the state becomes Playing; otherwise they are answered as nothing playing, nothing
\* paused or not authorized and the state is unchanged.  Neither changes the current
\* track, the queue or the votes, nor starts an advance.
C12_PauseResume ==
    [][\A u \in Users :
        LET allowed == u = current.requester_id \/ IsCreator(u) IN
        /\ (out'.op = "pause" /\ Pause(u))
           => /\ ControlFrame
              /\ IF state = "Playing" /\ allowed
                 THEN out' = Outcome("pause", "Paused") /\ state' = "Paused"
                 ELSE /\ out' = Outcome("pause", IF state = "Playing" THEN "NotAuthorized"
                                                 ELSE "NothingPlaying")
                      /\ state' = state /\ vcs' = vcs
        /\ (out'.op = "resume" /\ Resume(u))
           => /\ ControlFrame
              /\ IF state = "Paused" /\ allowed
                 THEN out' = Outcome("resume", "Resumed") /\ state' = "Playing"
                 ELSE /\ out' = Outcome("resume", IF state = "Paused" THEN "NotAuthorized"
                                                  ELSE "NothingPaused")
                      /\ state' = state /\ vcs' = vcs]_vars

C12_Witness ==
    /\ out = Outcome("resume", "Resumed")
    /\ state = "Playing"
    /\ current # NoSong
    /\ guild_queues # <<>>

\* C13: at the moment a track becomes the current track (play_next binds it to the
\* voice client, after a track ended, after a skip or on a first play), skip_votes is
\* empty.
C13_VotesClearedOnStart ==
    [][(current' # current /\ current' # NoSong) => skip_votes' = {}]_vars

\* the session is fully reset
SessionReset ==
    /\ state = "Idle"
    /\ guild_queues = <<>>
    /\ skip_votes = {}
    /\ current = NoSong
    /\ \A w \in WDIds : watchdogs[w].st = "dead"

\* C14: when an authorized stop is over, and when an idle teardown is over, the
\* session is fully reset: Idle, the queue empty, no votes, no current track and no
\* live auto_disconnect task.
C14_FullReset ==
    (out = Outcome("stop", "Completed") \/ out = Outcome("auto_disconnect", "Left"))
        => SessionReset

\* a track is bound to the sink of some voice client (playing or paused)
TrackBound == \E v \in VCIds : is_playing(v) \/ is_paused(v)

\* C15: a failure to start the dequeued track is not fatal: the session never stays
\* marked as playing with no track bound to the sink and no advance pending or in
\* flight.
C15_NeverStuck == ~(guild_playing /\ ~TrackBound /\ ~Advancing)

\* the queue is non-empty, the session is Idle, and nothing will advance it: no
\* advance is pending or in flight and no play handler is on its way to trigger one
Stranded ==
    /\ guild_queues # <<>>
    /\ state = "Idle"
    /\ ~Advancing
    /\ playTasks = EmptyBag

\* song number s has been handed to the sink
Started(s) == \E i \in 1 .. Len(started) : started[i] = s

\* C16: with a sink that accepts sources and no stop, removal or teardown, every
\* enqueued track is eventually started, and no enqueue is stranded: no state has a
\* non-empty queue, an Idle session and no advance pending or in flight.
C16_EnqueuedStarts ==
    /\ [](~Stranded)
    /\ \A s \in 1 .. MaxCommands : (enqueued >= s) ~> Started(s)

\* two plays overlapped: the second song was appended before the first had started,
\* and both have been started, the second being the current one
C16_Witness ==
    /\ started = <<1, 2>>
    /\ state = "Playing"
    /\ current.seq = 2
    /\ playTasks = EmptyBag

\* auto_disconnect task w is live: created and neither finished nor cancelled
Live(w) == watchdogs[w].st # "dead"

\* the task registered for the session is one just created, its idle_seconds at 0,
\* and no other task is live
Rearmed ==
    /\ disconnect_tasks # None
    /\ watchdogs[disconnect_tasks] = [st |-> "created", vc |-> None, idle_seconds |-> 0]
    /\ \A w \in WDIds : Live(w) => w = disconnect_tasks

\* C17: at most one idle watchdog is live at any instant, and every successful
\* playback start leaves exactly the newly created one live, its idle accumulator
\* at 0, whatever idle time the previous one had accumulated.
C17_OneWatchdog ==
    /\ [](Cardinality({w \in WDIds : Live(w)}) <= 1)
    /\ [][started' # started => Rearmed']_vars

\* a second track has just started on a session whose channel is empty, after a
\* watchdog of the first track had run: the new watchdog is the only one
C17_Witness ==
    /\ Len(started) = 2
    /\ members = {}
    /\ voice_client # None /\ is_playing(voice_client)
    /\ Rearmed

\* C18: skip_votes only ever holds members who are present in the voice channel, also
\* after a voter has left while the same track keeps playing.
C18_VotersPresent == skip_votes \subseteq members

\* what a volume request leaves alone: the queue, the session state and the track
VolumeFrame ==
    /\ current' = current
    /\ state' = state
    /\ UNCHANGED <<guild_queues, guild_playing, skip_votes, pending, pnTasks>>

\* a track that starts takes the stored session volume as its gain
GainOfNextTrack ==
    started' # started =>
        /\ is_playing(voice_client)'
        /\ vcs'[voice_client].source_volume = guild_volumes

C20_WatchdogWhileBound ==
    (voice_client # None /\ (is_playing(voice_client) \/ is_paused(voice_client)))
        => \E w \in WDIds : Live(w)
====
